---- MODULE Spec2Model ----
(***************************************************************************)
(* The account hierarchy store of personal-bookkeeping-mcp                 *)
(* (src/account_manager.py, class AccountManager).                         *)
(*                                                                         *)
(* Text values that the program compares with account keys (keys, parent   *)
(* keys, names, identifiers) are sequences of one-character strings, so    *)
(* the Python empty string is the empty sequence << >> and "is a key of 5  *)
(* uppercase letters" is a property of the value.  The other text fields   *)
(* (type, full_name, account_number, currency) are TLA+ strings.           *)
(*                                                                         *)
(* The DataFrame self._df is the sequence `store` of its rows.             *)
(***************************************************************************)
EXTENDS Integers, Sequences, FiniteSets, TLC

VARIABLES
    store,        \* self._df: the rows, in insertion order
    pc,           \* where the single thread of control is
    call,         \* the operation being run / last run, with its arguments
    result,       \* outcome of the last finished operation
    pre,          \* store and issued keys when the current/last call was entered
    issued,       \* every key a successful create_account has returned so far
    key,          \* _generate_account_key: the local variable key
    path,         \* get_account_path: the local variable path
    current_key,  \* get_account_path: the local variable current_key
    depth         \* get_account_path: the local variable depth

vars == <<store, pc, call, result, pre, issued, key, path, current_key, depth>>

(***************************************************************************)
(* Bounds of the model.                                                    *)
(***************************************************************************)
\* random.choices is restricted to the first NumKeys keys of the key space.
NumKeys == 2
\* Path walks are run on chains of 0..MaxShort accounts and on chains of
\* max_depth - 1 .. max_depth + MaxOver accounts.
MaxShort == 3
MaxOver == 1
\* Cyclic and dangling stores have 1..MaxLoop accounts.
MaxLoop == 3

(***************************************************************************)
(* Program constants.                                                      *)
(***************************************************************************)
\* random.choices(..., k=5)
KeyLen == 5
\* get_account_path: max_depth = 100
max_depth == 100

\* string.ascii_uppercase
ascii_uppercase ==
    << "A", "B", "C", "D", "E", "F", "G", "H", "I", "J", "K", "L", "M",
       "N", "O", "P", "Q", "R", "S", "T", "U", "V", "W", "X", "Y", "Z" >>

\* AccountType: the values of the enumeration's members
AccountType ==
    { "ASSET", "LIABILITY", "EQUITY", "INCOME", "EXPENSE", "CASH", "BANK", "CREDIT" }

\* is_valid as it would be if it accepted every string.
is_valid_any(value) == TRUE

\* AccountType.is_valid(value): value in cls._value2member_map_
is_valid(value) == value \in AccountType

\* AccountManager.OPTIONAL_COLUMNS
OPTIONAL_COLUMNS ==
    { "description", "color", "notes", "namespace", "tax_relevant", "placeholder" }

(***************************************************************************)
(* Keys.                                                                   *)
(***************************************************************************)
RECURSIVE Pow(_, _)
Pow(b, e) == IF e = 0 THEN 1 ELSE b * Pow(b, e - 1)

\* The i-th key of the key space in lexicographic order: KeyOf(0) is AAAAA,
\* KeyOf(1) is AAAAB, ...  Each is one outcome of
\* ''.join(random.choices(string.ascii_uppercase, k=5)).
KeyOf(i) ==
    [ p \in 1..KeyLen |->
        ascii_uppercase[((i \div Pow(Len(ascii_uppercase), KeyLen - p))
                          % Len(ascii_uppercase)) + 1] ]

\* The outcomes of the random draw that the model explores.
DrawnKeys == { KeyOf(i) : i \in 0..(NumKeys - 1) }

\* self._df['account_key'].values
account_keys(s) == { s[i].account_key : i \in DOMAIN s }

\* The test of line 80 as it would be if the first draw were always taken.
KeyAccepted_unchecked(s, k) == TRUE

\* _generate_account_key, line 80: the drawn key is accepted
KeyAccepted(s, k) == k \notin account_keys(s)

\* The parent check as it would be if it were left out.
ParentAccepted_unchecked(s, parent_key) == TRUE

\* create_account, lines 113-116: the parent check passes
ParentAccepted(s, parent_key) ==
    parent_key = << >> \/ parent_key \in account_keys(s)

\* The row as it would be if the currency argument were dropped for the
\* default, and every keyword argument kept.
new_account_default_currency(a, k) ==
    [ account_key    |-> k,
      parent_key     |-> a.parent_key,
      type           |-> a.account_type,
      name           |-> a.name,
      full_name      |-> a.full_name,
      account_number |-> a.account_number,
      currency       |-> "EUR",
      hidden         |-> a.hidden,
      optional       |-> a.optional_fields ]

\* create_account, lines 121-136: the row built from the arguments; the
\* optional columns are those keys of **optional_fields that OPTIONAL_COLUMNS
\* lists.
new_account(a, k) ==
    [ account_key    |-> k,
      parent_key     |-> a.parent_key,
      type           |-> a.account_type,
      name           |-> a.name,
      full_name      |-> a.full_name,
      account_number |-> a.account_number,
      currency       |-> a.currency,
      hidden         |-> a.hidden,
      optional       |-> [ f \in (DOMAIN a.optional_fields) \cap OPTIONAL_COLUMNS
                             |-> a.optional_fields[f] ] ]

\* The lookup as it would be if it never found a row.
get_account_by_key_none(s, account_key) == << >>

\* get_account_by_key, lines 154-160.  Optional[Series] is a sequence of at
\* most one row: << >> is None.
get_account_by_key(s, account_key) ==
    LET rows == SelectSeq(s, LAMBDA r : r.account_key = account_key)
    IN  IF Len(rows) > 0 THEN << rows[1] >> ELSE << >>

(***************************************************************************)
(* Inputs.                                                                 *)
(***************************************************************************)
Cash == << "C", "a", "s", "h" >>

\* The two argument lists create_account is called with, less account_type
\* and parent_key.  The second account is named like a key, and passes one
\* keyword argument that is no optional column.
BaseArgs ==
    { [ valid_type |-> "ASSET", name |-> Cash, full_name |-> "Assets:Cash",
        account_number |-> "", currency |-> "EUR", hidden |-> FALSE,
        optional_fields |-> [ description |-> "Cash on hand" ] ],
      [ valid_type |-> "BANK", name |-> KeyOf(1), full_name |-> "Assets:Cash:Checking",
        account_number |-> "12345678", currency |-> "USD", hidden |-> TRUE,
        optional_fields |-> [ placeholder |-> "no", icon |-> "x" ] ] }

\* A string that is no AccountType value.
BadType == "asset"

\* Each argument list with its own type and with a bad one, and with every
\* parent key: empty, or a key that may or may not be in the store.
ArgsOf(b) ==
    { [ account_type    |-> t,
        name            |-> b.name,
        full_name       |-> b.full_name,
        parent_key      |-> p,
        account_number  |-> b.account_number,
        currency        |-> b.currency,
        hidden          |-> b.hidden,
        optional_fields |-> b.optional_fields ] :
      t \in { b.valid_type, BadType }, p \in DrawnKeys \cup { << >> } }

CreateArgs == UNION { ArgsOf(b) : b \in BaseArgs }

(***************************************************************************)
(* create_account                                                          *)
(***************************************************************************)
\* call and result are records of one shape for every operation; the parts
\* an operation does not use are empty.
NoCall ==
    [ op |-> "none", arg |-> << >>, identifier |-> << >>, fields |-> << >>,
      account_key |-> << >> ]

\* status: "none", "running", "ok", or the error raised; key: the key
\* create_account returned; success: the boolean update_account and
\* delete_account returned; path: the list get_account_path returned.
NoResult ==
    [ status |-> "none", key |-> << >>, success |-> FALSE, path |-> << >> ]

Raised(error) == [ NoResult EXCEPT !.status = error ]

\* create_account, lines 108-116: the two validations.
create_account_enter(a) ==
    /\ pc = "idle"
    /\ call' = [ NoCall EXCEPT !.op = "create_account", !.arg = a ]
    /\ pre' = [ store |-> store, issued |-> issued ]
    /\ IF ~ is_valid(a.account_type)
       THEN /\ result' = Raised("InvalidType")
            /\ pc' = "idle"
       ELSE IF ~ ParentAccepted(store, a.parent_key)
       THEN /\ result' = Raised("UnknownParent")
            /\ pc' = "idle"
       ELSE /\ result' = [ NoResult EXCEPT !.status = "running" ]
            /\ pc' = "draw"
    /\ UNCHANGED << store, issued, key, path, current_key, depth >>

\* _generate_account_key, line 79: one random draw.
generate_draw ==
    /\ pc = "draw"
    /\ key' \in DrawnKeys
    /\ pc' = "test"
    /\ UNCHANGED << store, call, result, pre, issued, path, current_key, depth >>

\* _generate_account_key, line 80, condition false: the key collides, loop.
generate_retry ==
    /\ pc = "test"
    /\ ~ KeyAccepted(store, key)
    /\ pc' = "draw"
    /\ UNCHANGED << store, call, result, pre, issued, key, path, current_key, depth >>

\* _generate_account_key, lines 80-81, condition true, and the rest of
\* create_account, lines 119-142: build the row, append it, return the key.
create_account_finish ==
    /\ pc = "test"
    /\ KeyAccepted(store, key)
    /\ store' = Append(store, new_account(call.arg, key))
    /\ result' = [ NoResult EXCEPT !.status = "ok", !.key = key ]
    /\ issued' = issued \cup { key }
    /\ key' = << >>
    /\ pc' = "idle"
    /\ UNCHANGED << call, pre, path, current_key, depth >>

(***************************************************************************)
(* update_account, delete_account, count_accounts, get_account_by_name:    *)
(* the callers are in src/example_usage.py, the bodies are not in src/;    *)
(* they are modelled from section 4.1 of the specification.                *)
(***************************************************************************)
\* get_account_by_name: exact match on name, the first match if several.
get_account_by_name(s, name) ==
    LET rows == SelectSeq(s, LAMBDA r : r.name = name)
    IN  IF Len(rows) > 0 THEN << rows[1] >> ELSE << >>

\* The identifier of update_account and delete_account "may be an
\* account_key or a name (resolved by lookup)".
resolve(s, identifier) ==
    IF get_account_by_key(s, identifier) # << >>
    THEN get_account_by_key(s, identifier)
    ELSE get_account_by_name(s, identifier)

\* The first row of s that holds account_key k (0 if none).
row_of(s, k) ==
    IF \E i \in DOMAIN s : s[i].account_key = k
    THEN CHOOSE i \in DOMAIN s :
            /\ s[i].account_key = k
            /\ \A j \in DOMAIN s : s[j].account_key = k => i <= j
    ELSE 0

\* s without its i-th row.
remove_row(s, i) == SubSeq(s, 1, i - 1) \o SubSeq(s, i + 1, Len(s))

\* A row with the given fields overwritten, the others untouched.
overwrite(r, fields) ==
    [ f \in DOMAIN r |-> IF f \in DOMAIN fields THEN fields[f] ELSE r[f] ]

\* count_accounts(include_hidden)
count_accounts(s, include_hidden) ==
    IF include_hidden THEN Len(s)
    ELSE Len(SelectSeq(s, LAMBDA r : ~ r.hidden))

Identifiers == DrawnKeys \cup { Cash }

\* The fields update_account is called with: a new parent key, empty, or a
\* key that may or may not be in the store (the account's own key too).
UpdateFields == { [ parent_key |-> p ] : p \in DrawnKeys \cup { << >> } }

update_account(identifier, fields) ==
    /\ pc = "idle"
    /\ call' = [ NoCall EXCEPT !.op = "update_account",
                             !.identifier = identifier, !.fields = fields ]
    /\ pre' = [ store |-> store, issued |-> issued ]
    /\ LET account == resolve(store, identifier)
       IN  IF account = << >>
           THEN /\ result' = [ NoResult EXCEPT !.status = "ok", !.success = FALSE ]
                /\ store' = store
           ELSE /\ result' = [ NoResult EXCEPT !.status = "ok", !.success = TRUE ]
                /\ store' = [ store EXCEPT ![row_of(store, account[1].account_key)] =
                                              overwrite(@, fields) ]
    /\ UNCHANGED << pc, issued, key, path, current_key, depth >>

delete_account(identifier) ==
    /\ pc = "idle"
    /\ call' = [ NoCall EXCEPT !.op = "delete_account", !.identifier = identifier ]
    /\ pre' = [ store |-> store, issued |-> issued ]
    /\ LET account == resolve(store, identifier)
       IN  IF account = << >>
           THEN /\ result' = [ NoResult EXCEPT !.status = "ok", !.success = FALSE ]
                /\ store' = store
           ELSE /\ result' = [ NoResult EXCEPT !.status = "ok", !.success = TRUE ]
                /\ store' = remove_row(store, row_of(store, account[1].account_key))
    /\ UNCHANGED << pc, issued, key, path, current_key, depth >>

(***************************************************************************)
(* get_account_path                                                        *)
(***************************************************************************)
\* The loop condition as it would be without the depth guard.
walk_condition_unguarded(k, d) == k # << >>

\* line 206: the loop condition
walk_condition(k, d) == k # << >> /\ d < max_depth

\* lines 199-204
get_account_path_enter(account_key) ==
    /\ pc = "idle"
    /\ call' = [ NoCall EXCEPT !.op = "get_account_path", !.account_key = account_key ]
    /\ pre' = [ store |-> store, issued |-> issued ]
    /\ result' = [ NoResult EXCEPT !.status = "running" ]
    /\ path' = << >>
    /\ current_key' = account_key
    /\ depth' = 0
    /\ pc' = "walk"
    /\ UNCHANGED << store, issued, key >>

\* lines 206-213: one iteration that finds the account
get_account_path_step ==
    /\ pc = "walk"
    /\ walk_condition(current_key, depth)
    /\ LET account == get_account_by_key(store, current_key)
       IN  /\ account # << >>
           /\ path' = << current_key >> \o path
           /\ current_key' = account[1].parent_key
           /\ depth' = depth + 1
    /\ UNCHANGED << store, pc, call, result, pre, issued, key >>

\* lines 206-209, 215: the loop ends (condition false, or break), return path
get_account_path_return ==
    /\ pc = "walk"
    /\ \/ ~ walk_condition(current_key, depth)
       \/ get_account_by_key(store, current_key) = << >>
    /\ result' = [ NoResult EXCEPT !.status = "ok", !.path = path ]
    /\ pc' = "idle"
    /\ UNCHANGED << store, call, pre, issued, key, path, current_key, depth >>

(***************************************************************************)
(* Specifications.                                                         *)
(***************************************************************************)
\* __init__, lines 73-74: an empty DataFrame.
Init ==
    /\ store = << >>
    /\ pc = "idle"
    /\ call = NoCall
    /\ result = NoResult
    /\ pre = [ store |-> << >>, issued |-> {} ]
    /\ issued = {}
    /\ key = << >>
    /\ path = << >>
    /\ current_key = << >>
    /\ depth = 0

Next ==
    \/ \E a \in CreateArgs : create_account_enter(a)
    \/ generate_draw
    \/ generate_retry
    \/ create_account_finish
    \/ \E i \in Identifiers, f \in UpdateFields : update_account(i, f)
    \/ \E i \in Identifiers : delete_account(i)

Spec == Init /\ [][Next]_vars

\* The draws are random and uniform: a loop that keeps drawing draws every
\* key that can be drawn, so a free key is drawn if there is one (strong
\* fairness of the draw of a free key); the loop's steps themselves always
\* run (weak fairness).
generate_draw_free == generate_draw /\ KeyAccepted(store, key')

FairSpec ==
    /\ Spec
    /\ WF_vars(generate_draw)
    /\ WF_vars(generate_retry)
    /\ WF_vars(create_account_finish)
    /\ SF_vars(generate_draw_free)

(***************************************************************************)
(* The path walk is run on stores the operations above produce.            *)
(***************************************************************************)
\* The arguments of the i-th create_account of a chain: the first account is
\* a root, each later one is the child of the one before.
chain_args(i) ==
    [ account_type    |-> "ASSET",
      name            |-> Cash,
      full_name       |-> "Assets:Cash",
      parent_key      |-> IF i = 1 THEN << >> ELSE KeyOf(i - 2),
      account_number  |-> "",
      currency        |-> "EUR",
      hidden          |-> FALSE,
      optional_fields |-> << >> ]

\* The store after n calls of create_account that drew KeyOf(0), KeyOf(1), ...
ChainStore(n) == [ i \in 1..n |-> new_account(chain_args(i), KeyOf(i - 1)) ]

\* ChainStore(n) after update_account(KeyOf(0), parent_key = KeyOf(n - 1)).
CycleStore(n) == [ ChainStore(n) EXCEPT ![1].parent_key = KeyOf(n - 1) ]

\* ChainStore(n + 1) after delete_account(KeyOf(0)).
DanglingStore(n) == Tail(ChainStore(n + 1))

ChainLengths == (0..MaxShort) \cup ((max_depth - 1)..(max_depth + MaxOver))

\* The stores create_account alone produces.
ChainStores == { ChainStore(n) : n \in ChainLengths }

\* With the stores update_account and delete_account make of them.
PathStores ==
    ChainStores
        \cup { CycleStore(n) : n \in 1..MaxLoop }
        \cup { DanglingStore(n) : n \in 1..MaxLoop }

\* The keys get_account_path is called with: every key of the store, the
\* empty key, and two keys that may be missing from it.
PathKeys(s) == account_keys(s) \cup { << >>, KeyOf(0), KeyOf(Len(s) + 1) }

PathInitOn(stores) ==
    /\ store \in stores
    /\ pc = "idle"
    /\ call = NoCall
    /\ result = NoResult
    /\ pre = [ store |-> store, issued |-> account_keys(store) ]
    /\ issued = account_keys(store)
    /\ key = << >>
    /\ path = << >>
    /\ current_key = << >>
    /\ depth = 0

PathNext ==
    \/ \E k \in PathKeys(store) : get_account_path_enter(k)
    \/ get_account_path_step
    \/ get_account_path_return

PathInit == PathInitOn(PathStores)

ChainInit == PathInitOn(ChainStores)

\* get_account_path on every store; the loop's iterations and its return
\* always run.
PathSpec ==
    /\ PathInit
    /\ [][PathNext]_vars
    /\ WF_vars(get_account_path_step)
    /\ WF_vars(get_account_path_return)

\* get_account_path on the stores that create_account alone produces.
ChainSpec ==
    /\ ChainInit
    /\ [][PathNext]_vars
    /\ WF_vars(get_account_path_step)
    /\ WF_vars(get_account_path_return)

(***************************************************************************)
(* The claims.                                                             *)
(***************************************************************************)
Range(f) == { f[x] : x \in DOMAIN f }

\* A key of KeyLen uppercase letters.
IsKey(k) ==
    /\ DOMAIN k = 1..KeyLen
    /\ \A p \in DOMAIN k : k[p] \in Range(ascii_uppercase)

\* The last finished call was create_account; it returned a key.
Created == call.op = "create_account" /\ result.status = "ok"

\* C1: the account keys of the stored rows are pairwise distinct, and the key
\* a successful create_account returns is a key of 5 uppercase letters that
\* no row held when the call was made.
C1_KeysUniqueAndFresh ==
    /\ \A i, j \in DOMAIN store :
          i # j => store[i].account_key # store[j].account_key
    /\ Created =>
          /\ IsKey(result.key)
          /\ result.key \notin account_keys(pre.store)

\* create_account returned a key on a store that already held an account.
C1_Witness ==
    /\ Created
    /\ Len(pre.store) >= 1
    /\ Len(store) = Len(pre.store) + 1

\* The last call was create_account with a non-empty parent key that no row
\* of the store held.
UnknownParentCall ==
    /\ call.op = "create_account"
    /\ call.arg.parent_key # << >>
    /\ call.arg.parent_key \notin account_keys(pre.store)

\* C2 as stated: create_account with a non-empty parent key that is not in
\* the store always fails with UnknownParent, returns no key and leaves the
\* store as it was.
C2_Original ==
    UnknownParentCall =>
        /\ result.status = "UnknownParent"
        /\ result.key = << >>
        /\ store = pre.store

\* C2 as amended: create_account with a non-empty parent key that is not in
\* the store always fails, returns no key and leaves the store as it was;
\* the failure is UnknownParent when the type is an AccountType value, and
\* InvalidType when it is not (the type is validated first).
C2_UnknownParentRejected ==
    UnknownParentCall =>
        /\ result.status =
              IF call.arg.account_type \in AccountType
              THEN "UnknownParent" ELSE "InvalidType"
        /\ result.key = << >>
        /\ store = pre.store

\* create_account failed with UnknownParent on a store that holds accounts.
C2_Witness ==
    /\ UnknownParentCall
    /\ result.status = "UnknownParent"
    /\ Len(store) >= 1

\* C3: create_account with a type that is no AccountType value always fails
\* with InvalidType, whatever the other arguments are, and leaves the rows of
\* the store (their number and their contents) unchanged.
C3_InvalidTypeRejected ==
    (call.op = "create_account" /\ call.arg.account_type \notin AccountType) =>
        /\ result.status = "InvalidType"
        /\ result.key = << >>
        /\ Len(store) = Len(pre.store)
        /\ store = pre.store

\* create_account failed with InvalidType although its parent key was
\* unknown too, on a store that holds accounts.
C3_Witness ==
    /\ UnknownParentCall
    /\ call.arg.account_type \notin AccountType
    /\ result.status = "InvalidType"
    /\ Len(store) >= 1

\* Following parent_key links from key k of store s ends at a root within n
\* hops.
RECURSIVE ReachesRoot(_, _, _)
ReachesRoot(s, k, n) ==
    /\ \E i \in DOMAIN s : s[i].account_key = k
    /\ LET r == s[CHOOSE i \in DOMAIN s : s[i].account_key = k]
       IN  \/ r.parent_key = << >>
           \/ n > 0 /\ ReachesRoot(s, r.parent_key, n - 1)

\* C4: in every state the operations create_account, update_account and
\* delete_account reach, following parent_key links from any stored account
\* ends at a root account without visiting an account twice (so within as
\* many hops as the store has other accounts).
C4_ParentGraphAcyclic ==
    \A i \in DOMAIN store :
        ReachesRoot(store, store[i].account_key, Len(store) - 1)

\* C6: a key that a successful create_account returned is never returned by
\* a later create_account, also after its account was deleted.
C6_KeyNeverReused ==
    Created => result.key \notin pre.issued

\* The last call was delete_account with an identifier that is the
\* account_key or the name of a row of the store.
DeleteOfStored ==
    /\ call.op = "delete_account"
    /\ \E i \in DOMAIN pre.store :
          \/ pre.store[i].account_key = call.identifier
          \/ pre.store[i].name = call.identifier

C8_CreateAppliesOrRejects ==
    call.op = "create_account" =>
        /\ result.status \in { "ok", "InvalidType", "UnknownParent", "running" }
        /\ result.status # "ok" => store = pre.store
        /\ result.status = "ok" =>
              /\ Len(store) = Len(pre.store) + 1
              /\ SubSeq(store, 1, Len(pre.store)) = pre.store
              /\ LET r == store[Len(store)]
                 IN  /\ r.account_key = result.key
                     /\ r.type = call.arg.account_type
                     /\ r.name = call.arg.name
                     /\ r.full_name = call.arg.full_name
                     /\ r.parent_key = call.arg.parent_key
                     /\ r.account_number = call.arg.account_number
                     /\ r.currency = call.arg.currency
                     /\ r.hidden = call.arg.hidden

\* create_account appended a second, hidden child account in US dollars.
C8_Witness ==
    /\ Created
    /\ Len(store) = 2
    /\ store[2].parent_key = store[1].account_key
    /\ store[2].currency = "USD"
    /\ store[2].hidden

\* The parent_key of the account with key k in store s.
ParentKeyOf(s, k) == s[CHOOSE i \in DOMAIN s : s[i].account_key = k].parent_key

\* The last call was get_account_path and it has returned.
PathReturned == call.op = "get_account_path" /\ result.status = "ok"

\* C5: for every key k of the store, get_account_path(k) returns the path
\* from a root to k: its last element is k, its first element is a root
\* account, and each element is the parent_key of the next; whatever the
\* depth of the chain.
C5_PathFromRoot ==
    (PathReturned /\ call.account_key \in account_keys(store)) =>
        LET p == result.path
        IN  /\ Len(p) >= 1
            /\ p[Len(p)] = call.account_key
            /\ p[1] \in account_keys(store)
            /\ ParentKeyOf(store, p[1]) = << >>
            /\ \A i \in 1..(Len(p) - 1) :
                  p[i] = ParentKeyOf(store, p[i + 1])

\* What holds during and after every walk: at most max_depth iterations
\* have run, each has put one key in front of the path; and the path
\* returned is that of the keys visited, root-most first, the walk having
\* stopped on an empty key, on a key that is not in the store, or after
\* max_depth hops; it is empty for a key that is not in the store.
PathWalkBounded ==
    /\ depth <= max_depth
    /\ Len(path) = depth
    /\ PathReturned =>
          LET p == result.path
          IN  /\ p = path
              /\ Len(p) <= max_depth
              /\ call.account_key \notin account_keys(store) => p = << >>
              /\ call.account_key \in account_keys(store) => p[Len(p)] = call.account_key
              /\ \A i \in 1..Len(p) : p[i] \in account_keys(store)
              /\ \A i \in 1..(Len(p) - 1) :
                    p[i] = ParentKeyOf(store, p[i + 1])
              /\ \/ current_key = << >>
                 \/ current_key \notin account_keys(store)
                 \/ Len(p) = max_depth

\* C9: get_account_path ends for every key and every store, also when the
\* parent links form a cycle or point at a missing account: the walk stops
\* when the current key is empty, when it is not found, or after 100 hops,
\* and returns the keys visited so far (at most 100, root-most first); for a
\* key not in the store it returns the empty sequence.
C9_PathWalkTerminates ==
    /\ []PathWalkBounded
    /\ (pc = "walk") ~> (pc = "idle")

\* A walk round a cycle that the depth guard stopped: max_depth keys are
\* returned, one of them more than once, and the next key is in the store.
C9_Witness ==
    /\ PathReturned
    /\ Len(result.path) = max_depth
    /\ Cardinality(Range(result.path)) < max_depth
    /\ current_key \in account_keys(store)

\* C10: create_account always completes: a call that has been made
\* eventually returns a key or fails with InvalidType or UnknownParent.
C10_CreateCompletes ==
    (pc \in { "draw", "test" }) ~> (pc = "idle")

====
